---- MODULE Spec2Model ----
(***************************************************************************)
(* Model of bitcoin-new.py: the DailyPriceStats accumulator (act/new_day)  *)
(* and its two subclasses, Schema1 (trend record) and Schema2 (dispersion  *)
(* record).  act() is a generator: it is modelled by its suspension points *)
(* (the two yield statements) and the code that runs between them.         *)
(*                                                                         *)
(* Prices are floats in the program; here they are whole numbers of        *)
(* currency units, so the f"{x:0.2f}" rendering always ends in ".00" and   *)
(* the statistics are exact rationals.  A value that is None in the        *)
(* program is the empty tuple <<>>, a present value x is <<x>>.            *)
(***************************************************************************)
EXTENDS Integers, Sequences, FiniteSets, TLC

\* ------------------------------------------------------------------ bounds
MaxLen == 3

Years  == {2021}
Months == {1, 2}
Days   == {1, 2}
Hours  == {9, 10}
Prices == {90, 100, 110}

\* ------------------------------------------------------- optional values
None == <<>>
Some(x) == <<x>>
IsNone(o) == o = <<>>
Get(o) == o[1]

\* ------------------------------------------------------------ input data
\* PriceDateEntry = Tuple[datetime.datetime, float]
Timestamps == [year : Years, month : Months, day : Days, hour : Hours]
PriceDateEntry == [date : Timestamps, val : Prices]

\* the order of datetime values
TsKey(t) == ((t.year * 100 + t.month) * 100 + t.day) * 100 + t.hour

Ascending(s) == \A i \in 1..(Len(s) - 1) : TsKey(s[i].date) <= TsKey(s[i + 1].date)

Inputs == { s \in UNION { [1..n -> PriceDateEntry] : n \in 0..MaxLen } : Ascending(s) }

\* ------------------------------------------------------------ formatting
Pad2(n) == IF n < 10 THEN "0" \o ToString(n) ELSE ToString(n)

\* strftime("%Y-%m-%dT%H:%M:%S") of a datetime at hour granularity
FormatDate(t) ==
    ToString(t.year) \o "-" \o Pad2(t.month) \o "-" \o Pad2(t.day)
        \o "T" \o Pad2(t.hour) \o ":00:00"

\* f"{x:0.2f}" of a whole number
Format2f(x) == ToString(x) \o ".00"

IsLeap(y) == (y % 4 = 0) /\ ((y % 100 # 0) \/ (y % 400 = 0))

DaysInMonth(y, m) ==
    IF m = 2 THEN (IF IsLeap(y) THEN 29 ELSE 28)
    ELSE IF m \in {4, 6, 9, 11} THEN 30 ELSE 31

RECURSIVE DaysBeforeMonth(_, _)
DaysBeforeMonth(y, m) ==
    IF m <= 1 THEN 0 ELSE DaysBeforeMonth(y, m - 1) + DaysInMonth(y, m - 1)

\* datetime.toordinal(): days since 0001-01-01, that day being 1
ToOrdinal(t) ==
    LET y1 == t.year - 1
    IN  y1 * 365 + (y1 \div 4) - (y1 \div 100) + (y1 \div 400)
            + DaysBeforeMonth(t.year, t.month) + t.day

WeekdayNames ==
    <<"Monday", "Tuesday", "Wednesday", "Thursday", "Friday", "Saturday", "Sunday">>

\* strftime("%A")
FormatWeekday(t) == WeekdayNames[((ToOrdinal(t) + 6) % 7) + 1]

\* ------------------------------------------------------ DailyPriceStats
DailyPriceStats ==
    [curr_val |-> None, curr_date |-> None,
     prev_val |-> None, prev_date |-> None,
     prev_day_val |-> None]

\* new_day without the "prev_date is None" disjunct
new_day_without_first(self) ==
    ~IsNone(self.prev_date) /\ Get(self.prev_date).day # Get(self.curr_date).day

new_day(self) ==
    IsNone(self.prev_date)
        \/ (~IsNone(self.prev_date) /\ Get(self.prev_date).day # Get(self.curr_date).day)

\* self.curr_date, self.curr_val = line
SetCurrent(self, line) ==
    [self EXCEPT !.curr_date = Some(line.date), !.curr_val = Some(line.val)]

\* "self.prev_day_val = self.prev_val" in place of the line below
SetStartOfDay_from_prev_val(self) == [self EXCEPT !.prev_day_val = self.prev_val]

\* self.prev_day_val = self.curr_val
SetStartOfDay(self) == [self EXCEPT !.prev_day_val = self.curr_val]

\* the end of the loop body without "self.prev_date = self.curr_date"
SetPrevious_val_only(self) == [self EXCEPT !.prev_val = self.curr_val]

\* the end of the loop body without "self.prev_val = self.curr_val"
SetPrevious_date_only(self) == [self EXCEPT !.prev_date = self.curr_date]

\* self.prev_date = self.curr_date ; self.prev_val = self.curr_val
SetPrevious(self) ==
    [self EXCEPT !.prev_date = self.curr_date, !.prev_val = self.curr_val]

\* -------------------------------------------------------------- Schema1
Schema1 ==
    [curr_val |-> None, curr_date |-> None,
     prev_val |-> None, prev_date |-> None,
     prev_day_val |-> None,
     min_val |-> None, max_val |-> None]

day_of_week(self) == FormatWeekday(Get(self.curr_date))

\* change against the previous sample instead of the start of the day
change_since_prev_val(self) ==
    IF IsNone(self.prev_day_val) THEN None
    ELSE Some(Get(self.curr_val) - Get(self.prev_val))

change(self) ==
    IF IsNone(self.prev_day_val) THEN None
    ELSE Some(Get(self.curr_val) - Get(self.prev_day_val))

\* direction with ">= 0" for "up"
direction_up_on_zero(self) ==
    IF IsNone(change(self)) THEN None
    ELSE IF Get(change(self)) >= 0 THEN Some("up")
    ELSE IF Get(change(self)) < 0 THEN Some("down")
    ELSE Some("same")

direction(self) ==
    IF IsNone(change(self)) THEN None
    ELSE IF Get(change(self)) > 0 THEN Some("up")
    ELSE IF Get(change(self)) < 0 THEN Some("down")
    ELSE Some("same")

\* high_since_start with ">=" for ">"
high_since_start_or_equal(self) ==
    IF IsNone(self.max_val)
    THEN [ret |-> None, self |-> [self EXCEPT !.max_val = self.curr_val]]
    ELSE IF Get(self.curr_val) >= Get(self.max_val)
    THEN [ret |-> Some(TRUE), self |-> [self EXCEPT !.max_val = self.curr_val]]
    ELSE [ret |-> Some(FALSE), self |-> self]

\* the property reads and writes _max_val: ret is the value returned,
\* self the object afterwards
high_since_start(self) ==
    IF IsNone(self.max_val)
    THEN [ret |-> None, self |-> [self EXCEPT !.max_val = self.curr_val]]
    ELSE IF Get(self.curr_val) > Get(self.max_val)
    THEN [ret |-> Some(TRUE), self |-> [self EXCEPT !.max_val = self.curr_val]]
    ELSE [ret |-> Some(FALSE), self |-> self]

\* low_since_start that does not store the first price in _min_val
low_since_start_without_init(self) ==
    IF IsNone(self.min_val)
    THEN [ret |-> None, self |-> self]
    ELSE IF Get(self.curr_val) < Get(self.min_val)
    THEN [ret |-> Some(TRUE), self |-> [self EXCEPT !.min_val = self.curr_val]]
    ELSE [ret |-> Some(FALSE), self |-> self]

\* low_since_start with the comparison of high_since_start
low_since_start_greater(self) ==
    IF IsNone(self.min_val)
    THEN [ret |-> None, self |-> [self EXCEPT !.min_val = self.curr_val]]
    ELSE IF Get(self.curr_val) > Get(self.min_val)
    THEN [ret |-> Some(TRUE), self |-> [self EXCEPT !.min_val = self.curr_val]]
    ELSE [ret |-> Some(FALSE), self |-> self]

low_since_start(self) ==
    IF IsNone(self.min_val)
    THEN [ret |-> None, self |-> [self EXCEPT !.min_val = self.curr_val]]
    ELSE IF Get(self.curr_val) < Get(self.min_val)
    THEN [ret |-> Some(TRUE), self |-> [self EXCEPT !.min_val = self.curr_val]]
    ELSE [ret |-> Some(FALSE), self |-> self]

\* f"{self.change:0.2f}" if self.change else None : the test is Python
\* truthiness, so both None and 0 take the else branch
FormatChange(self) ==
    IF ~IsNone(change(self)) /\ Get(change(self)) # 0
    THEN Some(Format2f(Get(change(self))))
    ELSE None

\* output_format rendering the start-of-day price once there is one
output_format1_start_price(self) ==
    LET hi == high_since_start(self)
        lo == low_since_start(hi.self)
    IN  [rec |-> [date           |-> FormatDate(Get(self.curr_date)),
                  price          |-> Format2f(Get(IF IsNone(self.prev_day_val)
                                                    THEN self.curr_val
                                                    ELSE self.prev_day_val)),
                  direction      |-> direction(self),
                  change         |-> FormatChange(self),
                  dayOfWeek      |-> day_of_week(self),
                  highSinceStart |-> hi.ret,
                  lowSinceStart  |-> lo.ret],
         self |-> lo.self]

\* the dict is built key by key, high_since_start before low_since_start
output_format1(self) ==
    LET hi == high_since_start(self)
        lo == low_since_start(hi.self)
    IN  [rec |-> [date           |-> FormatDate(Get(self.curr_date)),
                  price          |-> Format2f(Get(self.curr_val)),
                  direction      |-> direction(self),
                  change         |-> FormatChange(self),
                  dayOfWeek      |-> day_of_week(self),
                  highSinceStart |-> hi.ret,
                  lowSinceStart  |-> lo.ret],
         self |-> lo.self]

\* DailyPriceStats.hourly_update / post_daily_update, not overridden
hourly_update1(self) == self

post_daily_update1(self) == self

\* -------------------------------------------------------------- Schema2
Schema2 ==
    [curr_val |-> None, curr_date |-> None,
     prev_val |-> None, prev_date |-> None,
     prev_day_val |-> None,
     vals |-> <<>>]

RECURSIVE Gcd(_, _)
Gcd(a, b) == IF b = 0 THEN a ELSE Gcd(b, a % b)

Abs(x) == IF x < 0 THEN -x ELSE x

\* the number n/d (d > 0) in lowest terms
Rat(n, d) ==
    LET g == Gcd(Abs(n), d)
    IN  [num |-> n \div g, den |-> d \div g]

RECURSIVE Sum(_)
Sum(xs) == IF Len(xs) = 0 THEN 0 ELSE Get(Head(xs)) + Sum(Tail(xs))

RECURSIVE SumSq(_)
SumSq(xs) == IF Len(xs) = 0 THEN 0 ELSE Get(Head(xs)) * Get(Head(xs)) + SumSq(Tail(xs))

\* statistics.mean(xs)
Mean(xs) == Rat(Sum(xs), Len(xs))

\* statistics.variance(xs): sum((x - mean)^2) / (n - 1)
\*   = (n * sum(x^2) - sum(x)^2) / (n * (n - 1))
Variance(xs) ==
    LET n == Len(xs)
    IN  Rat(n * SumSq(xs) - Sum(xs) * Sum(xs), n * (n - 1))

daily_average(self) ==
    IF Len(self.vals) < 1 THEN Rat(Get(self.curr_val), 1)
    ELSE Mean(self.vals)

\* daily_variance returning the current price for a short list, as
\* daily_average does
daily_variance_like_average(self) ==
    IF Len(self.vals) < 2
    THEN (IF IsNone(self.curr_val) THEN Rat(0, 1) ELSE Rat(Get(self.curr_val), 1))
    ELSE Variance(self.vals)

daily_variance(self) ==
    IF Len(self.vals) < 2 THEN Rat(0, 1)
    ELSE Variance(self.vals)

\* -1*std_dev*2 < selected_vals[-1] - new_mean < std_dev*2, squared and
\* cleared of denominators: with n, S, Q the length, sum and sum of squares
\* of selected_vals and x its last element,
\*   (x - S/n)^2 < 4 * (n*Q - S^2) / (n * (n-1))
WithinTwoStdDev(selected_vals) ==
    LET n == Len(selected_vals)
        S == Sum(selected_vals)
        Q == SumSq(selected_vals)
        x == Get(selected_vals[n])
    IN  (n * x - S) * (n * x - S) * (n - 1) < 4 * n * (n * Q - S * S)

\* volatility_alert with range(len(self.vals) + 1): the full list is tested too
volatility_alert_full_list(self) ==
    \E i \in 0..Len(self.vals) :
        LET selected_vals == SubSeq(self.vals, 1, i)
        IN  Len(selected_vals) >= 2 /\ WithinTwoStdDev(selected_vals)

\* for i in range(len(self.vals)): selected_vals = self.vals[:i] ...
volatility_alert(self) ==
    \E i \in 0..(Len(self.vals) - 1) :
        LET selected_vals == SubSeq(self.vals, 1, i)
        IN  Len(selected_vals) >= 2 /\ WithinTwoStdDev(selected_vals)

hourly_update2(self) == [self EXCEPT !.vals = Append(self.vals, self.curr_val)]

\* post_daily_update that leaves vals alone
post_daily_update2_keeps_vals(self) == self

post_daily_update2(self) == [self EXCEPT !.vals = <<>>]

\* output_format rendering the previous sample's price once there is one
output_format2_prev_price(self) ==
    [rec |-> [date            |-> FormatDate(Get(self.curr_date)),
              price           |-> Format2f(Get(IF IsNone(self.prev_val)
                                                THEN self.curr_val ELSE self.prev_val)),
              dailyAverage    |-> daily_average(self),
              dailyVariance   |-> daily_variance(self),
              volatilityalert |-> volatility_alert(self)],
     self |-> self]

output_format2(self) ==
    [rec |-> [date            |-> FormatDate(Get(self.curr_date)),
              price           |-> Format2f(Get(self.curr_val)),
              dailyAverage    |-> daily_average(self),
              dailyVariance   |-> daily_variance(self),
              volatilityalert |-> volatility_alert(self)],
     self |-> self]

\* ---------------------------------------------------------------- state
VARIABLES
    data,      \* the sequence handed to act()
    schema1,   \* Schema1().act(data): object, position, samples consumed, records yielded
    schema2    \* Schema2().act(data): the same for the Schema2 object

vars == <<data, schema1, schema2>>

\* a generator object of act(): cls is the class of self, by which the
\* overridden methods are found
\* hourly_calls counts the calls of self.hourly_update() (observation only)
NewGenerator(cls, obj) ==
    [cls |-> cls, self |-> obj, pc |-> "loop", idx |-> 0, out |-> <<>>,
     hourly_calls |-> 0]

\* method lookup on the class of self
output_format(cls, self) ==
    IF cls = "Schema1" THEN output_format1(self) ELSE output_format2(self)

hourly_update(cls, self) ==
    IF cls = "Schema1" THEN hourly_update1(self) ELSE hourly_update2(self)

post_daily_update(cls, self) ==
    IF cls = "Schema1" THEN post_daily_update1(self) ELSE post_daily_update2(self)

\* self.hourly_update() inside act()
CallHourlyUpdate(g) ==
    [g EXCEPT !.self = hourly_update(g.cls, g.self),
              !.hourly_calls = g.hourly_calls + 1]

Init ==
    /\ data \in Inputs
    /\ schema1 = NewGenerator("Schema1", Schema1)
    /\ schema2 = NewGenerator("Schema2", Schema2)

\* ------------------------------------------------- DailyPriceStats.act
\* one loop iteration whose sample starts a new day, up to the yield
ActNewDay(g) ==
    LET cur == SetCurrent(g.self, data[g.idx + 1])
        r   == output_format(g.cls, cur)
    IN  [g EXCEPT !.self = r.self, !.out = Append(g.out, r.rec), !.pc = "yield_day"]

NewDayEnabled(g) ==
    /\ g.pc = "loop"
    /\ g.idx < Len(data)
    /\ new_day(SetCurrent(g.self, data[g.idx + 1]))

\* the rest of that iteration, after the consumer resumes the generator
ActResume(g) ==
    LET reset   == [g EXCEPT !.self = SetStartOfDay(post_daily_update(g.cls, g.self))]
        updated == CallHourlyUpdate(reset)
    IN  [updated EXCEPT !.self = SetPrevious(updated.self),
                        !.idx = g.idx + 1,
                        !.pc = "loop"]

\* one loop iteration whose sample does not start a new day
ActSameDay(g) ==
    LET updated == CallHourlyUpdate([g EXCEPT !.self = SetCurrent(g.self, data[g.idx + 1])])
    IN  [updated EXCEPT !.self = SetPrevious(updated.self), !.idx = g.idx + 1]

SameDayEnabled(g) ==
    /\ g.pc = "loop"
    /\ g.idx < Len(data)
    /\ ~new_day(SetCurrent(g.self, data[g.idx + 1]))

\* act() without the hourly_update after the loop
ActFinish_without_update(g) ==
    LET r == output_format(g.cls, g.self)
    IN  [g EXCEPT !.self = r.self, !.out = Append(g.out, r.rec), !.pc = "yield_last"]

\* after the loop: the last hourly_update and the trailing yield
ActFinish(g) ==
    LET updated == CallHourlyUpdate(g)
        r       == output_format(g.cls, updated.self)
    IN  [updated EXCEPT !.self = r.self, !.out = Append(g.out, r.rec),
                        !.pc = "yield_last"]

FinishEnabled(g) ==
    /\ g.pc = "loop"
    /\ g.idx = Len(data)
    /\ ~IsNone(g.self.curr_date)

\* after the loop of an empty input: curr_date is still None and
\* self.curr_date.strftime raises AttributeError inside output_format
ActRaise(g) ==
    [CallHourlyUpdate(g) EXCEPT !.pc = "raised"]

RaiseEnabled(g) ==
    /\ g.pc = "loop"
    /\ g.idx = Len(data)
    /\ IsNone(g.self.curr_date)

\* the generator returns after the trailing yield
ActReturn(g) == [g EXCEPT !.pc = "done"]

Finished(g) == g.pc \in {"done", "raised"}

\* ------------------------------------------------------------- actions
S1NewDay ==
    /\ NewDayEnabled(schema1)
    /\ schema1' = ActNewDay(schema1)
    /\ UNCHANGED <<data, schema2>>

S1Resume ==
    /\ schema1.pc = "yield_day"
    /\ schema1' = ActResume(schema1)
    /\ UNCHANGED <<data, schema2>>

S1SameDay ==
    /\ SameDayEnabled(schema1)
    /\ schema1' = ActSameDay(schema1)
    /\ UNCHANGED <<data, schema2>>

S1Finish ==
    /\ FinishEnabled(schema1)
    /\ schema1' = ActFinish(schema1)
    /\ UNCHANGED <<data, schema2>>

S1Raise ==
    /\ RaiseEnabled(schema1)
    /\ schema1' = ActRaise(schema1)
    /\ UNCHANGED <<data, schema2>>

S1Return ==
    /\ schema1.pc = "yield_last"
    /\ schema1' = ActReturn(schema1)
    /\ UNCHANGED <<data, schema2>>

\* the second list(...act(...)) starts when the first has been consumed
S2NewDay ==
    /\ Finished(schema1)
    /\ NewDayEnabled(schema2)
    /\ schema2' = ActNewDay(schema2)
    /\ UNCHANGED <<data, schema1>>

S2Resume ==
    /\ schema2.pc = "yield_day"
    /\ schema2' = ActResume(schema2)
    /\ UNCHANGED <<data, schema1>>

S2SameDay ==
    /\ Finished(schema1)
    /\ SameDayEnabled(schema2)
    /\ schema2' = ActSameDay(schema2)
    /\ UNCHANGED <<data, schema1>>

S2Finish ==
    /\ Finished(schema1)
    /\ FinishEnabled(schema2)
    /\ schema2' = ActFinish(schema2)
    /\ UNCHANGED <<data, schema1>>

S2Raise ==
    /\ Finished(schema1)
    /\ RaiseEnabled(schema2)
    /\ schema2' = ActRaise(schema2)
    /\ UNCHANGED <<data, schema1>>

S2Return ==
    /\ schema2.pc = "yield_last"
    /\ schema2' = ActReturn(schema2)
    /\ UNCHANGED <<data, schema1>>

Next ==
    \/ S1NewDay \/ S1Resume \/ S1SameDay \/ S1Finish \/ S1Raise \/ S1Return
    \/ S2NewDay \/ S2Resume \/ S2SameDay \/ S2Finish \/ S2Raise \/ S2Return

Spec == Init /\ [][Next]_vars

\* ================================================================ claims
\* what the input says, computed from data alone

\* the calendar dates the samples of s fall on
CalendarDates(s) ==
    { <<s[i].date.year, s[i].date.month, s[i].date.day>> : i \in 1..Len(s) }

\* the samples of s at which the day-boundary predicate holds
Boundaries(s) ==
    { i \in 1..Len(s) : i = 1 \/ s[i - 1].date.day # s[i].date.day }

\* the boundary samples of s from sample i on, in input order
RECURSIVE BoundariesFrom(_, _)
BoundariesFrom(s, i) ==
    IF i > Len(s) THEN <<>>
    ELSE (IF i = 1 \/ s[i - 1].date.day # s[i].date.day THEN <<i>> ELSE <<>>)
            \o BoundariesFrom(s, i + 1)

BoundarySeq(s) == BoundariesFrom(s, 1)

\* the k-th boundary sample of s
KthBoundary(s, k) == BoundarySeq(s)[k]

Generators == {schema1, schema2}

AtYield(g) == g.pc \in {"yield_day", "yield_last"}

LastRecord(g) == g.out[Len(g.out)]

\* the sample that is current while g is suspended at a yield
CurrentIndex(g) == IF g.pc = "yield_day" THEN g.idx + 1 ELSE Len(data)

\* ------------------------------------------------------------------- C1
\* C1 (as stated): a non-empty ascending input whose samples fall on D
\* distinct calendar dates makes each engine emit exactly D + 1 records.
C1_DistinctDatesPlusOne ==
    \A g \in Generators :
        (Len(data) > 0 /\ g.pc = "done")
            => Len(g.out) = Cardinality(CalendarDates(data)) + 1

\* ------------------------------------------------------------------- C2
SingleDay(s) == Len(s) > 0 /\ Cardinality(CalendarDates(s)) = 1

AllAbsent(r) ==
    /\ IsNone(r.change)
    /\ IsNone(r.direction)
    /\ IsNone(r.highSinceStart)
    /\ IsNone(r.lowSinceStart)

\* C2 (as stated): a single-day input makes the Trend engine emit exactly
\* one record, with change, direction, highSinceStart, lowSinceStart absent.
C2_SingleDayOneRecord ==
    (schema1.pc = "done" /\ SingleDay(data))
        => (Len(schema1.out) = 1 /\ AllAbsent(LastRecord(schema1)))

\* C2 (amended): a single-day input makes the Trend engine emit exactly two
\* records, the one yielded at the first sample and the trailing one; the
\* first has change, direction, highSinceStart and lowSinceStart absent.
C2_SingleDayTwoRecords ==
    (schema1.pc = "done" /\ SingleDay(data))
        => (Len(schema1.out) = 2 /\ AllAbsent(schema1.out[1]))

C2_Witness ==
    /\ SingleDay(data)
    /\ Len(data) >= 2
    /\ schema1.pc = "done"
    /\ Len(schema1.out) = 2

\* ------------------------------------------------------------------- C3
\* C3 (as stated): on the empty input act() does not raise and emits
\* exactly one record, for both engines.
C3_EmptyInputOneRecord ==
    \A g \in Generators :
        Len(data) = 0
            => (g.pc # "raised" /\ (g.pc = "done" => Len(g.out) = 1))

\* ------------------------------------------------------------------- C4
\* one or more samples on one date, then exactly one sample on another
DayOneThenOne(s) ==
    /\ Len(s) >= 2
    /\ Cardinality(CalendarDates(SubSeq(s, 1, Len(s) - 1))) = 1
    /\ CalendarDates(SubSeq(s, 1, Len(s) - 1)) # CalendarDates(SubSeq(s, Len(s), Len(s)))

DirectionOf(d) == IF d > 0 THEN "up" ELSE IF d < 0 THEN "down" ELSE "same"

C4Example ==
    << [date |-> [year |-> 2021, month |-> 1, day |-> 1, hour |-> 9],  val |-> 100],
       [date |-> [year |-> 2021, month |-> 1, day |-> 1, hour |-> 10], val |-> 110],
       [date |-> [year |-> 2021, month |-> 1, day |-> 2, hour |-> 9],  val |-> 90] >>

\* C4 (as stated): for samples on day 1 followed by one sample on day 2 the
\* trailing record reports change = day-2 price - first day-1 price (two
\* decimals) and its direction; the example yields 2 records, the trailing
\* one with direction "down" and change "-10.00".
C4_TrailingReportsDayChange ==
    (schema1.pc = "done" /\ DayOneThenOne(data))
        => LET d == data[Len(data)].val - data[1].val
               r == LastRecord(schema1)
           IN  /\ r.change = Some(Format2f(d))
               /\ r.direction = Some(DirectionOf(d))
               /\ (data = C4Example
                     => (Len(schema1.out) = 2 /\ r.direction = Some("down")
                            /\ r.change = Some("-10.00")))

\* C4 (amended): when the day-2 sample also differs from day 1 in its
\* day-of-month, 3 records are emitted; the second one (yielded at the day-2
\* sample) reports the direction of day-2 price - first day-1 price and that
\* difference with two decimals (absent when the difference is 0); the
\* trailing record reports direction "same" and no change.  The example
\* yields 3 records, the second with direction "down", change "-10.00".
C4_BoundaryReportsDayChange ==
    (schema1.pc = "done" /\ DayOneThenOne(data)
        /\ data[Len(data)].date.day # data[1].date.day)
        => LET d == data[Len(data)].val - data[1].val
               r == schema1.out[2]
           IN  /\ Len(schema1.out) = 3
               /\ r.change = (IF d # 0 THEN Some(Format2f(d)) ELSE None)
               /\ r.direction = Some(DirectionOf(d))
               /\ schema1.out[3].direction = Some("same")
               /\ schema1.out[3].change = None
               /\ (data = C4Example
                     => (r.direction = Some("down") /\ r.change = Some("-10.00")))

C4_Witness ==
    /\ data = C4Example
    /\ schema1.pc = "done"
    /\ Len(schema1.out) = 3
    /\ schema1.out[2].change = Some("-10.00")

\* ------------------------------------------------------------------- C5
\* the records g has yielded after idx samples, by its position
ExpectedCount(g) ==
    Cardinality(Boundaries(SubSeq(data, 1, g.idx)))
        + (IF g.pc = "yield_day" THEN 1 ELSE 0)
        + (IF g.pc \in {"yield_last", "done"} THEN 1 ELSE 0)

\* the statement of C5 for one generator
RecordPerBoundaryPlusTrailing(g) ==
        Len(data) > 0 =>
            /\ Len(g.out) = ExpectedCount(g)
            /\ g.pc \in {"yield_last", "done"} =>
                  /\ Len(g.out) = 1 + Cardinality(Boundaries(data))
                  /\ LET bs == BoundarySeq(data)
                     IN  \A k \in 1..Len(bs) :
                            g.out[k].date = FormatDate(data[bs[k]].date)
                  /\ LastRecord(g).date = FormatDate(data[Len(data)].date)

\* C5: for a non-empty input each engine yields one record per sample at
\* which the day-boundary predicate holds, in input order, and then the
\* trailing record, which is the last one and is yielded before act() ends.
C5_RecordPerBoundaryPlusTrailing ==
    /\ RecordPerBoundaryPlusTrailing(schema1)
    /\ RecordPerBoundaryPlusTrailing(schema2)

C5_Witness ==
    /\ Len(data) = 3
    /\ Cardinality(Boundaries(data)) = 2
    /\ Cardinality(CalendarDates(data)) = 3
    /\ schema1.pc = "done"
    /\ schema2.pc = "done"
    /\ Len(schema2.out) = 3

\* ------------------------------------------------------------------- C6
\* While schema1 is suspended at a yield its fields are those the last
\* record was rendered from (prev_day_val is overwritten on resumption).

\* C6 (as stated): in every Trend record change is absent only if
\* startOfDayPrice is absent; when startOfDayPrice is present change is the
\* two-decimal string of current.price - startOfDayPrice; so change is
\* absent exactly when direction is absent.
C6_ChangeAbsentOnlyBeforeFirstDay ==
    AtYield(schema1) =>
        LET r    == LastRecord(schema1)
            self == schema1.self
        IN  /\ IsNone(r.change) => IsNone(self.prev_day_val)
            /\ ~IsNone(self.prev_day_val) =>
                  r.change = Some(Format2f(Get(self.curr_val) - Get(self.prev_day_val)))
            /\ IsNone(r.change) <=> IsNone(r.direction)

\* ------------------------------------------------------------------- C7
\* C7: in every Trend record direction is "up" iff current.price -
\* startOfDayPrice > 0, "down" iff it is < 0, "same" iff it is 0, and
\* absent iff startOfDayPrice (hence change()) is absent.
C7_DirectionIsSignOfChange ==
    AtYield(schema1) =>
        LET r    == LastRecord(schema1)
            self == schema1.self
        IN  /\ IsNone(r.direction) <=> IsNone(self.prev_day_val)
            /\ ~IsNone(self.prev_day_val) =>
                  LET d == Get(self.curr_val) - Get(self.prev_day_val)
                  IN  /\ r.direction = Some("up") <=> d > 0
                      /\ r.direction = Some("down") <=> d < 0
                      /\ r.direction = Some("same") <=> d = 0

C7_Witness ==
    /\ schema1.pc = "yield_day"
    /\ ~IsNone(schema1.self.prev_day_val)
    /\ Get(schema1.self.curr_val) < Get(schema1.self.prev_day_val)
    /\ LastRecord(schema1).direction = Some("down")

\* ------------------------------------------------------------------- C8
\* the test of the claim on the first i prices of xs against the price x
StrictlyWithin(xs, i, x) ==
    LET S == Sum(SubSeq(xs, 1, i))
        Q == SumSq(SubSeq(xs, 1, i))
    IN  (i * x - S) * (i * x - S) * (i - 1) < 4 * i * (i * Q - S * S)

\* C8 (as stated): volatilityAlert() is true iff for some prefix length i,
\* 2 <= i <= len(samplesThisDay), the LAST element of the full list lies
\* strictly within 2 sample standard deviations of the prefix's mean.
C8_AlertTestsLastOfFullList ==
    AtYield(schema2) =>
        LET xs == schema2.self.vals
        IN  LastRecord(schema2).volatilityalert
                = (\E i \in 2..Len(xs) : StrictlyWithin(xs, i, Get(xs[Len(xs)])))

\* C8 (amended): volatilityAlert() is true iff for some prefix length i,
\* 2 <= i <= len(samplesThisDay) - 1, the last element of THAT PREFIX lies
\* strictly within 2 sample standard deviations of the prefix's mean.
C8_AlertTestsLastOfPrefix ==
    AtYield(schema2) =>
        LET xs == schema2.self.vals
        IN  LastRecord(schema2).volatilityalert
                = (\E i \in 2..(Len(xs) - 1) : StrictlyWithin(xs, i, Get(xs[i])))

C8_Witness ==
    /\ AtYield(schema2)
    /\ Len(schema2.self.vals) >= 3
    /\ LastRecord(schema2).volatilityalert = TRUE

\* ------------------------------------------------------------------- C9
\* C9 (as stated): a Trend record with highSinceStart = true has a price
\* strictly greater than every sample consumed before its current sample,
\* and one with lowSinceStart = true a price strictly lower than all those.
C9_MarksAreAllTimeMarks ==
    AtYield(schema1) =>
        LET r == LastRecord(schema1)
            c == CurrentIndex(schema1)
        IN  /\ r.highSinceStart = Some(TRUE) =>
                  \A j \in 1..(c - 1) : data[j].val < data[c].val
            /\ r.lowSinceStart = Some(TRUE) =>
                  \A j \in 1..(c - 1) : data[j].val > data[c].val

\* ------------------------------------------------------------------ C10
\* C10: for every input both engines yield the same number of records and
\* their i-th records have the same date and the same price.
C10_SameDatesAndPrices ==
    (Finished(schema1) /\ Finished(schema2)) =>
        /\ Len(schema1.out) = Len(schema2.out)
        /\ \A i \in 1..Len(schema1.out) :
              /\ i <= Len(schema2.out)
              /\ schema1.out[i].date = schema2.out[i].date
              /\ schema1.out[i].price = schema2.out[i].price

C10_Witness ==
    /\ schema1.pc = "done"
    /\ schema2.pc = "done"
    /\ Len(schema2.out) = 3
    /\ schema1.out[2].price # schema1.out[1].price
    /\ schema2.out[2].price = schema1.out[2].price

\* ------------------------------------------------------------------ C11
\* the last boundary sample of s among its first i samples
LastBoundaryUpTo(s, i) ==
    CHOOSE b \in Boundaries(s) :
        b <= i /\ \A c \in Boundaries(s) : c <= i => c <= b

\* the prices of samples a..b of s, as hourly_update collects them
PricesOf(s, a, b) == [j \in 1..(b - a + 1) |-> Some(s[a + j - 1].val)]

Zero == [num |-> 0, den |-> 1]

\* C11: daily_variance() is 0 whenever vals has 0 or 1 elements, in every
\* reachable state; so the first Dispersion record and every Dispersion
\* record rendered for a day that holds a single sample report variance 0.
C11_VarianceZeroOnShortList ==
    /\ Len(schema2.self.vals) <= 1 => daily_variance(schema2.self) = Zero
    /\ AtYield(schema2) =>
          LET r == LastRecord(schema2)
          IN  /\ Len(schema2.self.vals) <= 1 => r.dailyVariance = Zero
              /\ Len(schema2.out) = 1 => r.dailyVariance = Zero
              /\ (schema2.pc = "yield_day" /\ schema2.idx >= 1
                    /\ LastBoundaryUpTo(data, schema2.idx) = schema2.idx)
                    => r.dailyVariance = Zero
              /\ (schema2.pc = "yield_last"
                    /\ LastBoundaryUpTo(data, Len(data)) = Len(data))
                    => r.dailyVariance = Zero

C11_Witness ==
    /\ schema2.pc = "yield_day"
    /\ schema2.idx >= 2
    /\ Len(schema2.self.vals) = 1
    /\ LastRecord(schema2).dailyVariance = Zero

\* ------------------------------------------------------------------ C12
\* C12: at every Dispersion day-boundary record but the first, vals is the
\* ordered prices of the samples since the previous boundary, each once,
\* without the price of the sample that triggers the boundary; once that
\* sample has been consumed vals is exactly [current.price].
C12_ValsAreThePreviousDay ==
    /\ (schema2.pc = "yield_day" /\ schema2.idx >= 1) =>
          /\ schema2.self.vals
                = PricesOf(data, LastBoundaryUpTo(data, schema2.idx), schema2.idx)
          /\ Len(schema2.self.vals)
                = schema2.idx + 1 - LastBoundaryUpTo(data, schema2.idx)
    /\ (schema2.pc = "loop" /\ schema2.idx \in Boundaries(data)) =>
          schema2.self.vals = <<Some(data[schema2.idx].val)>>

C12_Witness ==
    /\ schema2.pc = "yield_day"
    /\ schema2.idx = 2
    /\ Len(schema2.self.vals) = 2
    /\ schema2.self.vals[1] # schema2.self.vals[2]
    /\ schema2.self.vals[2] # Some(data[3].val)

\* ------------------------------------------------------------------ C13
\* hourly_update() has run once per sample and once more
HourlyCallsAtEnd(g) ==
    (Len(data) > 0 /\ g.pc \in {"yield_last", "done"})
        => g.hourly_calls = Len(data) + 1

\* C13: for a non-empty input of N samples hourly_update() has run N + 1
\* times when the trailing record is rendered, and at the trailing
\* Dispersion record vals is the k prices of the final day's samples
\* followed by one more copy of the last price (k + 1 >= 2 elements).
C13_LastSampleCountedTwice ==
    /\ HourlyCallsAtEnd(schema1)
    /\ HourlyCallsAtEnd(schema2)
    /\ schema2.pc = "yield_last" =>
          LET b == LastBoundaryUpTo(data, Len(data))
          IN  /\ schema2.self.vals
                    = PricesOf(data, b, Len(data)) \o <<Some(data[Len(data)].val)>>
              /\ Len(schema2.self.vals) = (Len(data) - b + 1) + 1
              /\ Len(schema2.self.vals) >= 2

C13_Witness ==
    /\ schema2.pc = "yield_last"
    /\ Len(data) = 3
    /\ schema2.hourly_calls = 4
    /\ Len(schema2.self.vals) = 3
    /\ schema2.self.vals[1] # schema2.self.vals[2]

\* ------------------------------------------------------------------ C14
\* prev_day_val after a sample has been consumed
StartOfDayIsLastBoundary(g) ==
    (g.pc = "loop" /\ g.idx >= 1) =>
        g.self.prev_day_val = Some(data[LastBoundaryUpTo(data, g.idx)].val)

RecordSamples == BoundarySeq(data) \o <<Len(data)>>

RECURSIVE MaxOf(_)
MaxOf(S) ==
    LET x == CHOOSE y \in S : TRUE
    IN  IF S = {x} THEN x
        ELSE LET m == MaxOf(S \ {x}) IN IF x > m THEN x ELSE m

\* C15: highSinceStart is absent in exactly the first Trend record; in a
\* later record it is true iff the record's price is strictly greater than
\* the price of every earlier record, max_val being the maximum of the
\* prices at which a record was rendered; lowSinceStart likewise with
\* min_val and strictly less.
C15_MarksOverRenderedPrices ==
    LET rs == RecordSamples
    IN  /\ \A k \in 1..Len(schema1.out) :
              LET pk == data[rs[k]].val
                  r  == schema1.out[k]
              IN  /\ IsNone(r.highSinceStart) <=> k = 1
                  /\ IsNone(r.lowSinceStart) <=> k = 1
                  /\ k > 1 =>
                        /\ r.highSinceStart
                              = Some(\A j \in 1..(k - 1) : data[rs[j]].val < pk)
                        /\ r.lowSinceStart
                              = Some(\A j \in 1..(k - 1) : data[rs[j]].val > pk)
        /\ Len(schema1.out) > 0 =>
              /\ schema1.self.max_val
                    = Some(MaxOf({ data[rs[k]].val : k \in 1..Len(schema1.out) }))
              /\ schema1.self.min_val
                    = Some(-MaxOf({ -data[rs[k]].val : k \in 1..Len(schema1.out) }))

C15_Witness ==
    /\ schema1.pc = "done"
    /\ Len(data) = 3
    /\ Boundaries(data) = {1, 3}
    /\ data[2].val > data[3].val
    /\ schema1.out[2].highSinceStart = Some(TRUE)
    /\ schema1.out[3].highSinceStart = Some(FALSE)
    /\ schema1.out[3].lowSinceStart = Some(FALSE)

\* ------------------------------------------------------------------ C16
\* C16: output_format called twice on a Trend object with no sample in
\* between gives a second record equal to the first in date, price,
\* direction, change and dayOfWeek, with highSinceStart and lowSinceStart
\* both false; the two records differ whenever the first call returned
\* absent or true for either field.
C16_RenderNotIdempotent ==
    ~IsNone(schema1.self.curr_date) =>
        LET first  == output_format1(schema1.self)
            second == output_format1(first.self)
        IN  /\ second.rec.date = first.rec.date
            /\ second.rec.price = first.rec.price
            /\ second.rec.direction = first.rec.direction
            /\ second.rec.change = first.rec.change
            /\ second.rec.dayOfWeek = first.rec.dayOfWeek
            /\ second.rec.highSinceStart = Some(FALSE)
            /\ second.rec.lowSinceStart = Some(FALSE)
            /\ (first.rec.highSinceStart # Some(FALSE)
                  \/ first.rec.lowSinceStart # Some(FALSE))
                  => second.rec # first.rec

C16_Witness ==
    /\ schema1.pc = "loop"
    /\ ~IsNone(schema1.self.max_val)
    /\ Get(schema1.self.curr_val) > Get(schema1.self.max_val)
    /\ output_format1(schema1.self).rec.highSinceStart = Some(TRUE)
    /\ output_format1(output_format1(schema1.self).self).rec.highSinceStart = Some(FALSE)

\* ------------------------------------------------------------------ C17
\* the statement of C17 for one generator
PreviousIsLastProcessed(g) ==
        /\ IsNone(g.self.prev_date) <=> g.idx = 0
        /\ IsNone(g.self.prev_val) <=> g.idx = 0
        /\ g.idx >= 1 =>
              /\ g.self.prev_date = Some(data[g.idx].date)
              /\ g.self.prev_val = Some(data[g.idx].val)
        /\ (g.idx >= 1 \/ g.pc = "yield_day") =>
              /\ Len(g.out) >= 1
              /\ g.out[1].date = FormatDate(data[1].date)
        /\ (g.pc = "loop" /\ g.idx = 0 /\ Len(data) > 0) => NewDayEnabled(g)

\* C17: prev_date/prev_val are None iff no sample has been fully processed;
\* after a sample has been processed they are that sample; new_day is
\* evaluated before they are updated, so the first sample of any input is
\* a day boundary (it yields the first record).
C17_PreviousIsLastProcessed ==
    /\ PreviousIsLastProcessed(schema1)
    /\ PreviousIsLastProcessed(schema2)

C17_Witness ==
    /\ schema2.pc = "loop"
    /\ schema2.idx = 2
    /\ data[1] # data[2]
    /\ schema2.self.prev_val = Some(data[2].val)
    /\ Len(schema2.out) = 1

\* ------------------------------------------------------------------ C18
\* the statement of C18 for one generator
RecordCarriesCurrentSample(g) ==
        /\ AtYield(g) =>
              /\ LastRecord(g).date = FormatDate(data[CurrentIndex(g)].date)
              /\ LastRecord(g).price = Format2f(data[CurrentIndex(g)].val)
              /\ g.pc = "yield_day" => CurrentIndex(g) \in Boundaries(data)
        /\ g.pc = "done" =>
              LET rs == RecordSamples
              IN  \A k \in 1..Len(g.out) :
                     /\ g.out[k].date = FormatDate(data[rs[k]].date)
                     /\ g.out[k].price = Format2f(data[rs[k]].val)
        /\ (g.pc = "done" /\ Len(data) \in Boundaries(data)) =>
              /\ Len(g.out) >= 2
              /\ g.out[Len(g.out)].date = g.out[Len(g.out) - 1].date
              /\ g.out[Len(g.out)].price = g.out[Len(g.out) - 1].price

\* C18: every record carries the date and price of the sample current when
\* it is rendered: a day-boundary record those of the first sample of the
\* new day, the trailing record those of the last sample; so when the last
\* sample is a day boundary the last two records agree in date and price.
C18_RecordCarriesCurrentSample ==
    /\ RecordCarriesCurrentSample(schema1)
    /\ RecordCarriesCurrentSample(schema2)

C18_Witness ==
    /\ schema1.pc = "done"
    /\ schema2.pc = "done"
    /\ Len(data) = 3
    /\ Boundaries(data) = {1, 3}
    /\ data[3].val # data[2].val
    /\ data[2].val # data[1].val
    /\ schema2.out[3].price = schema2.out[2].price

\* ------------------------------------------------------------------ C19
\* C19: in every reachable state of the Trend engine min_val and max_val
\* are both None or both present with min_val <= max_val; in every record
\* highSinceStart and lowSinceStart are absent together and never both true.
C19_MinNotAboveMax ==
    /\ IsNone(schema1.self.min_val) <=> IsNone(schema1.self.max_val)
    /\ ~IsNone(schema1.self.min_val) =>
          Get(schema1.self.min_val) <= Get(schema1.self.max_val)
    /\ \A k \in 1..Len(schema1.out) :
          LET r == schema1.out[k]
          IN  /\ IsNone(r.highSinceStart) <=> IsNone(r.lowSinceStart)
              /\ ~(r.highSinceStart = Some(TRUE) /\ r.lowSinceStart = Some(TRUE))

C19_Witness ==
    /\ schema1.pc = "done"
    /\ Len(schema1.out) = 4
    /\ Get(schema1.self.min_val) < Get(schema1.self.max_val)
    /\ schema1.out[2].lowSinceStart = Some(TRUE)
    /\ schema1.out[3].highSinceStart = Some(TRUE)

====
